---------------------------- MODULE Spec2Model ----------------------------
(***************************************************************************)
(* Model of the two WHP+ data-preparation scripts                          *)
(*   src/data/WHPplus/process_ids_10000_10009.py   (the Record Converter)  *)
(*   src/data/WHPplus/split_whp.py                 (the Shard Splitter)    *)
(*                                                                         *)
(* JSON values are records tagged by their JSON type in field t.  A Python *)
(* exception that leaves a function is the value the function yields here  *)
(* ([exc |-> ...]); a run that an exception ends stops in pc = "failed".   *)
(***************************************************************************)
EXTENDS Integers, Sequences, FiniteSets, TLC

(***************************************************************************)
(* JSON values                                                             *)
(***************************************************************************)
\* a key that the JSON object does not have (dict.get then yields its default)
Absent == [t |-> "absent", v |-> ""]
JNull == [t |-> "null", v |-> ""]
JStr(s) == [t |-> "str", v |-> s]
\* the number 0 (falsy) and the number 1 (truthy)
JNum0 == [t |-> "num", v |-> "0"]
JNum1 == [t |-> "num", v |-> "1"]
\* the one-element list ["A"]
JListA == [t |-> "list", v |-> "A"]
\* a JSON object used as a choices mapping: letter -> value
JObj(m) == [t |-> "obj", v |-> "", m |-> m]
EmptyObj == JObj(<<>>)
\* an MCQ record object; a field that is Absent is a key the object lacks
Record(q, n, a, c) ==
  [t |-> "obj", question |-> q, name |-> n, answer |-> a, choices |-> c]

\* isinstance(x, dict) / isinstance(x, str) / isinstance(x, list)
IsDict(x) == x.t = "obj"
IsStr(x) == x.t = "str"
\* Python truth value of a JSON value (None, 0, "", [] and {} are falsy)
Truthy(x) ==
  CASE x.t = "null" -> FALSE
    [] x.t = "num" -> x.v # "0"
    [] x.t = "str" -> x.v # ""
    [] x.t = "list" -> x.v # ""
    [] x.t = "obj" -> DOMAIN x.m # {}
\* hash(x) succeeds: lists and dicts are unhashable
Hashable(x) == x.t \notin {"list", "obj"}
\* rec.get(field): None when the key is missing
Get(rec, field) == IF rec[field] = Absent THEN JNull ELSE rec[field]
\* rec.get(field, default)
GetDefault(rec, field, default) ==
  IF rec[field] = Absent THEN default ELSE rec[field]
\* key in d, for a hashable key and a dict loaded from JSON (string keys)
DictHas(d, key) == IsStr(key) /\ key.v \in DOMAIN d.m
\* d.get(key): None when the key is missing
DictGet(d, key) == IF DictHas(d, key) THEN d.m[key.v] ELSE JNull

AttributeError == [exc |-> "AttributeError"]

(***************************************************************************)
(* Record Converter: convert_record                                        *)
(***************************************************************************)
\* convert_record with choices.get(answer_letter, answer_letter): the letter
\* itself when it is no key of choices
convert_record_letter(rec) ==
  IF ~IsDict(rec) THEN AttributeError
  ELSE
    LET answer_letter == Get(rec, "answer")
        got == Get(rec, "choices")
        choices == IF Truthy(got) THEN got ELSE EmptyObj
        fact == IF IsStr(answer_letter) /\ IsDict(choices)
                THEN IF DictHas(choices, answer_letter)
                       THEN DictGet(choices, answer_letter) ELSE answer_letter
                ELSE JNull
    IN [question |-> Get(rec, "question"), fact |-> fact, name |-> Get(rec, "name")]

convert_record(rec) ==
  IF ~IsDict(rec) THEN AttributeError   \* rec.get on a non-dict
  ELSE
    LET question == Get(rec, "question")
        name == Get(rec, "name")
        answer_letter == Get(rec, "answer")
        got == Get(rec, "choices")
        choices == IF Truthy(got) THEN got ELSE EmptyObj
        fact == IF IsStr(answer_letter) /\ IsDict(choices)
                THEN DictGet(choices, answer_letter)
                ELSE JNull
    IN [question |-> question, fact |-> fact, name |-> name]

\* [convert_record(item) for item in v]: the list, or the exception that ends it
RECURSIVE ConvertFrom(_, _, _)
ConvertFrom(v, i, out) ==
  IF i > Len(v) THEN [exc |-> "none", out |-> out]
  ELSE LET r == convert_record(v[i])
       IN IF r = AttributeError THEN [exc |-> "AttributeError", out |-> <<>>]
          ELSE ConvertFrom(v, i + 1, Append(out, r))
convert_list(v) == ConvertFrom(v, 1, <<>>)

(***************************************************************************)
(* Shard Splitter: transform_items                                         *)
(***************************************************************************)
\* one pass of the loop body: "raise", "skip" or "emit"
ItemOutcome(it) ==
  IF ~IsDict(it) THEN "AttributeError"          \* it.get on a non-dict
  ELSE
    LET ans == Get(it, "answer")
        choices == GetDefault(it, "choices", EmptyObj)
    IN IF ~IsDict(choices) THEN "skip"
       ELSE IF ~Hashable(ans) THEN "TypeError"  \* ans not in choices
       ELSE IF ~DictHas(choices, ans) THEN "skip"
       ELSE IF DictGet(choices, ans) = JNull THEN "skip"
       ELSE "emit"
ItemOutput(it) ==
  [name |-> Get(it, "name"),
   question |-> Get(it, "question"),
   fact |-> DictGet(GetDefault(it, "choices", EmptyObj), Get(it, "answer"))]

RECURSIVE TransformFrom(_, _, _)
TransformFrom(items, i, out) ==
  IF i > Len(items) THEN [exc |-> "none", out |-> out]
  ELSE LET o == ItemOutcome(items[i])
       IN CASE o = "emit" -> TransformFrom(items, i + 1, Append(out, ItemOutput(items[i])))
            [] o = "skip" -> TransformFrom(items, i + 1, out)
            [] OTHER -> [exc |-> o, out |-> <<>>]
transform_items(items) == TransformFrom(items, 1, <<>>)

(***************************************************************************)
(* The record values the runs draw from                                    *)
(***************************************************************************)
QuestionVals == {Absent, JStr("Q1")}
NameVals == {Absent, JStr("N1")}
AnswerVals == {Absent, JNull, JStr("A"), JStr("X"), JNum1, JListA}
ChoicesVals ==
  {Absent, JNull, JNum0, JStr("x"), EmptyObj,
   JObj([k \in {"A", "B"} |-> IF k = "A" THEN JStr("fact1") ELSE JStr("fact2")]),
   JObj([k \in {"A"} |-> JNull]),
   JObj([k \in {"X"} |-> JStr("fact3")])}
RecordObjects ==
  {Record(q, n, a, c) : q \in QuestionVals, n \in NameVals,
                        a \in AnswerVals, c \in ChoicesVals}
\* list elements that are not JSON objects
NonObjects == {JNum1, JStr("x")}
AllElems == RecordObjects \cup NonObjects


(***************************************************************************)
(* Bounds and the datasets the runs draw from                              *)
(***************************************************************************)
\* most identifiers in a dataset
MaxIds == 3
\* largest shard count N
MaxShards == 3
\* longest record list the two record functions are applied to
MaxRecLen == 1

\* identifiers: two inside "10000".."10009", one just past it, one short one
IdSet == {"10000", "10009", "10010", "9"}
\* position of each identifier in Python's str order (code-point, lexicographic)
LexRank == [id \in IdSet |->
  CASE id = "10000" -> 1 [] id = "10009" -> 2 [] id = "10010" -> 3 [] id = "9" -> 4]

JList(items) == [t |-> "list", items |-> items]
IsList(x) == x.t = "list"
ChoicesAB ==
  JObj([k \in {"A", "B"} |-> IF k = "A" THEN JStr("fact1") ELSE JStr("fact2")])
\* a record whose answer resolves, one whose answer is no key of choices,
\* one whose answer is a list, and an element that is no object
Good == Record(JStr("Q1"), Absent, JStr("A"), ChoicesAB)
Unres == Record(JStr("Q1"), JStr("N1"), JStr("X"), ChoicesAB)
ListAns == Record(JStr("Q1"), JStr("N1"), JListA, ChoicesAB)
NonObj == JNum1
\* the values an identifier maps to: lists, a single object, a scalar
IdValues ==
  {JList(<<Good, Unres>>), JList(<<Unres>>), JList(<<NonObj>>),
   JList(<<ListAns>>), Good, JNum1}

Range(s) == {s[i] : i \in 1..Len(s)}
\* the elements of S in ascending str order
SortedSeq(S) ==
  [i \in 1..Cardinality(S) |->
     CHOOSE x \in S : Cardinality({y \in S : LexRank[y] < LexRank[x]}) = i - 1]
Reverse(s) == [i \in 1..Len(s) |-> s[Len(s) + 1 - i]]
\* a sequence with its first element moved to the end
Rotate(s) == [i \in 1..Len(s) |-> s[(i % Len(s)) + 1]]
\* the key orders a file is drawn with: ascending, descending, rotated
KeyOrders(S) == {SortedSeq(S), Reverse(SortedSeq(S)), Rotate(SortedSeq(S))}
\* JSON objects id -> value with at most MaxIds keys, in file order
Datasets ==
  UNION {{[i \in 1..Len(ids) |-> [id |-> ids[i], val |-> vals[i]]] :
            ids \in KeyOrders(S), vals \in [1..Cardinality(S) -> IdValues]} :
         S \in {T \in SUBSET IdSet : Cardinality(T) <= MaxIds}}

\* data.get(pid) for a key of the object
Lookup(d, pid) == (CHOOSE i \in 1..Len(d) : d[i].id = pid)
ValueOf(d, pid) == d[Lookup(d, pid)].val

(***************************************************************************)
(* State                                                                   *)
(***************************************************************************)
VARIABLES
  tool,          \* "converter", "splitter": the script this run executes
                 \* ("functions": the two record functions on their own)
  top_is_dict,   \* isinstance(data, dict) of the loaded JSON
  data,          \* the loaded object, as its (id, value) pairs in file order
  num_shards,    \* args.num_shards
  sort_ids,      \* args.sort_ids
  pc,            \* position of the run
  exc,           \* the exception that ended the run, "none" otherwise
  pos,           \* loop position (identifier being converted, shard written)
  selected,      \* process: dict selected
  others,        \* process: dict others
  conv_files,    \* output files process has written: name -> content
  outdir_made,   \* the splitter's output directory exists
  all_ids,       \* main: all_ids
  transformed,   \* main: dict transformed
  filtered_ids,  \* main: filtered_ids
  buckets,       \* main: buckets
  shard_files,   \* shard files main has written: number -> (id, items) pairs
  rec_items,     \* record functions on their own: the record list
  conv_res,      \* convert_record of each element of rec_items
  tr_res         \* transform_items(rec_items)

vars == <<tool, top_is_dict, data, num_shards, sort_ids, pc, exc, pos, selected,
          others, conv_files, outdir_made, all_ids, transformed, filtered_ids,
          buckets, shard_files, rec_items, conv_res, tr_res>>
convVars == <<selected, others, conv_files>>
splVars == <<outdir_made, all_ids, transformed, filtered_ids, buckets, shard_files>>
inputVars == <<tool, top_is_dict, data, num_shards, sort_ids>>
recVars == <<rec_items, conv_res, tr_res>>

\* a dict: a function on the set of its keys
EmptyDict == <<>>
DictPut(d, key, val) ==
  [x \in DOMAIN d \cup {key} |-> IF x = key THEN val ELSE d[x]]

\* no list built yet
NoResult == [exc |-> "none", out |-> <<>>]

InitRun ==
  /\ pc = "start" /\ exc = "none" /\ pos = 0
  /\ selected = EmptyDict /\ others = EmptyDict /\ conv_files = EmptyDict
  /\ outdir_made = FALSE /\ all_ids = <<>> /\ transformed = EmptyDict
  /\ filtered_ids = <<>> /\ buckets = <<>> /\ shard_files = EmptyDict
  /\ rec_items = <<>> /\ conv_res = <<>> /\ tr_res = NoResult

Init ==
  /\ tool \in {"converter", "splitter"}
  /\ top_is_dict \in BOOLEAN
  /\ data \in IF top_is_dict THEN Datasets ELSE {<<>>}
  /\ num_shards \in IF tool = "splitter" THEN 1..MaxShards ELSE {1}
  /\ sort_ids \in IF tool = "splitter" THEN BOOLEAN ELSE {FALSE}
  /\ InitRun

(***************************************************************************)
(* Record Converter: process                                               *)
(***************************************************************************)
\* the set built with range(10000, 10009): "10009" is left out
selected_ids_short == {"10000", "10001", "10002", "10003", "10004",
                       "10005", "10006", "10007", "10008"}

\* {str(i) for i in range(10000, 10010)}
selected_ids == {"10000", "10001", "10002", "10003", "10004",
                 "10005", "10006", "10007", "10008", "10009"}

Fail(e) == pc' = "failed" /\ exc' = e

\* json.load and the isinstance(data, dict) check
ConvLoad ==
  /\ tool = "converter" /\ pc = "start"
  /\ IF top_is_dict
       THEN pc' = "loop" /\ pos' = 1 /\ exc' = exc
       ELSE Fail("ValueError") /\ pos' = pos
  /\ UNCHANGED <<inputVars, convVars, splVars, recVars>>

\* one pass of "for k, v in data.items()"
ConvStep ==
  /\ tool = "converter" /\ pc = "loop" /\ pos <= Len(data)
  /\ LET key == data[pos].id
         v == data[pos].val
     IN IF ~IsList(v)
          THEN /\ pos' = pos + 1
               /\ UNCHANGED <<pc, exc, selected, others>>
          ELSE LET converted == convert_list(v.items)
               IN IF converted.exc # "none"
                    THEN /\ Fail(converted.exc)
                         /\ UNCHANGED <<pos, selected, others>>
                    ELSE /\ pos' = pos + 1
                         /\ UNCHANGED <<pc, exc>>
                         /\ IF key \in selected_ids
                              THEN /\ selected' = DictPut(selected, key, converted.out)
                                   /\ others' = others
                              ELSE /\ others' = DictPut(others, key, converted.out)
                                   /\ selected' = selected
  /\ UNCHANGED <<inputVars, conv_files, splVars, recVars>>

\* the loop is over: open(out_selected, "w") and json.dump(selected)
ConvWriteSelected ==
  /\ tool = "converter" /\ pc = "loop" /\ pos > Len(data)
  /\ conv_files' = DictPut(conv_files, "selected", selected)
  /\ pc' = "write_others"
  /\ UNCHANGED <<inputVars, exc, pos, selected, others, splVars, recVars>>

\* open(out_others, "w") and json.dump(others)
ConvWriteOthers ==
  /\ tool = "converter" /\ pc = "write_others"
  /\ conv_files' = DictPut(conv_files, "others", others)
  /\ pc' = "done"
  /\ UNCHANGED <<inputVars, exc, pos, selected, others, splVars, recVars>>

(***************************************************************************)
(* Shard Splitter: shard_ids and main                                      *)
(***************************************************************************)
\* sorted(ids), for distinct strings
Sorted(ids) == SortedSeq(Range(ids))

\* the loop of shard_ids from position idx on (Python's buckets[b] is b + 1 here)
RECURSIVE ShardFrom(_, _, _, _)
ShardFrom(ids, n, idx, bs) ==
  IF idx >= Len(ids) THEN bs
  ELSE ShardFrom(ids, n, idx + 1,
                 [bs EXCEPT ![(idx % n) + 1] = Append(@, ids[idx + 1])])
\* shard_ids counting positions from 1: buckets[(idx + 1) % n]
RECURSIVE ShardFromOne(_, _, _, _)
ShardFromOne(ids, n, idx, bs) ==
  IF idx >= Len(ids) THEN bs
  ELSE ShardFromOne(ids, n, idx + 1,
                    [bs EXCEPT ![((idx + 1) % n) + 1] = Append(@, ids[idx + 1])])
shard_ids_from_one(ids, n) == ShardFromOne(ids, n, 0, [b \in 1..n |-> <<>>])

shard_ids(ids, n) == ShardFrom(ids, n, 0, [b \in 1..n |-> <<>>])

\* [pid for pid in all_ids if pid in transformed]
FilterIds(ids, tr) == SelectSeq(ids, LAMBDA pid : pid \in DOMAIN tr)

\* main with ensure_outdir called before the isinstance(data, dict) check
SplLoadOutdirFirst ==
  /\ tool = "splitter" /\ pc = "start"
  /\ outdir_made' = TRUE
  /\ IF top_is_dict
       THEN pc' = "setup" /\ exc' = exc
       ELSE Fail("ValueError")
  /\ UNCHANGED <<inputVars, pos, convVars, all_ids, transformed, filtered_ids,
                 buckets, shard_files, recVars>>

\* json.load and the isinstance(data, dict) check
SplLoad ==
  /\ tool = "splitter" /\ pc = "start"
  /\ IF top_is_dict
       THEN pc' = "setup" /\ exc' = exc
       ELSE Fail("ValueError")
  /\ UNCHANGED <<inputVars, pos, convVars, splVars, recVars>>

\* ensure_outdir(outdir), then all_ids = list(data.keys()), sorted on --sort_ids
SplSetup ==
  /\ tool = "splitter" /\ pc = "setup"
  /\ outdir_made' = TRUE
  /\ LET keys == [i \in 1..Len(data) |-> data[i].id]
     IN all_ids' = IF sort_ids THEN Sorted(keys) ELSE keys
  /\ pc' = "transform" /\ pos' = 1
  /\ UNCHANGED <<inputVars, exc, convVars, transformed, filtered_ids, buckets,
                 shard_files, recVars>>

\* one pass of "for pid in all_ids"
SplTransform ==
  /\ tool = "splitter" /\ pc = "transform" /\ pos <= Len(all_ids)
  /\ LET pid == all_ids[pos]
         its == ValueOf(data, pid)
         new_items == IF IsList(its) THEN transform_items(its.items)
                      ELSE IF IsDict(its) THEN transform_items(<<its>>)
                      ELSE [exc |-> "none", out |-> <<>>]
     IN IF new_items.exc # "none"
          THEN Fail(new_items.exc) /\ UNCHANGED <<pos, transformed>>
          ELSE /\ pos' = pos + 1
               /\ UNCHANGED <<pc, exc>>
               /\ transformed' = IF new_items.out # <<>>
                                   THEN DictPut(transformed, pid, new_items.out)
                                   ELSE transformed
  /\ UNCHANGED <<inputVars, convVars, outdir_made, all_ids, filtered_ids, buckets,
                 shard_files, recVars>>

\* the loop is over: filtered_ids and buckets = shard_ids(filtered_ids, n)
SplShard ==
  /\ tool = "splitter" /\ pc = "transform" /\ pos > Len(all_ids)
  /\ filtered_ids' = FilterIds(all_ids, transformed)
  /\ buckets' = shard_ids(filtered_ids', num_shards)
  /\ pc' = "write" /\ pos' = 1
  /\ UNCHANGED <<inputVars, exc, convVars, outdir_made, all_ids, transformed,
                 shard_files, recVars>>

\* {pid: transformed[pid] for pid in bucket}, in the bucket's order
ShardDict(bucket, tr) ==
  [j \in 1..Len(bucket) |-> [id |-> bucket[j], val |-> tr[bucket[j]]]]

\* one pass of "for i, bucket in enumerate(buckets, start=1)": writes split_<i>
SplWrite ==
  /\ tool = "splitter" /\ pc = "write" /\ pos <= Len(buckets)
  /\ shard_files' = DictPut(shard_files, pos, ShardDict(buckets[pos], transformed))
  /\ pos' = pos + 1
  /\ pc' = IF pos = Len(buckets) THEN "done" ELSE "write"
  /\ UNCHANGED <<inputVars, exc, convVars, outdir_made, all_ids, transformed,
                 filtered_ids, buckets, recVars>>

Next ==
  \/ ConvLoad \/ ConvStep \/ ConvWriteSelected \/ ConvWriteOthers
  \/ SplLoad \/ SplSetup \/ SplTransform \/ SplShard \/ SplWrite

Spec == Init /\ [][Next]_vars

(***************************************************************************)
(* The record functions on their own: one list, both functions applied     *)
(***************************************************************************)
RecordLists == UNION {[1..n -> AllElems] : n \in 1..MaxRecLen}

InitRec ==
  /\ tool = "functions" /\ top_is_dict = TRUE /\ data = <<>>
  /\ num_shards = 1 /\ sort_ids = FALSE
  /\ \E l \in RecordLists :
       /\ pc = "start" /\ exc = "none" /\ pos = 0
       /\ selected = EmptyDict /\ others = EmptyDict /\ conv_files = EmptyDict
       /\ outdir_made = FALSE /\ all_ids = <<>> /\ transformed = EmptyDict
       /\ filtered_ids = <<>> /\ buckets = <<>> /\ shard_files = EmptyDict
       /\ rec_items = l /\ conv_res = <<>> /\ tr_res = NoResult

\* convert_record on every element of the list
RecConvert ==
  /\ tool = "functions" /\ pc = "start"
  /\ conv_res' = [i \in 1..Len(rec_items) |-> convert_record(rec_items[i])]
  /\ pc' = "converted"
  /\ UNCHANGED <<inputVars, exc, pos, convVars, splVars, rec_items, tr_res>>

\* transform_items on the list
RecTransform ==
  /\ tool = "functions" /\ pc = "converted"
  /\ tr_res' = transform_items(rec_items)
  /\ pc' = "done"
  /\ UNCHANGED <<inputVars, exc, pos, convVars, splVars, rec_items, conv_res>>

NextRec == RecConvert \/ RecTransform

SpecRec == InitRec /\ [][NextRec]_vars

(***************************************************************************)
(* Properties                                                              *)
(***************************************************************************)
IsConvRun == tool = "converter" /\ top_is_dict
IsSplRun == tool = "splitter" /\ top_is_dict
Finished == pc \in {"done", "failed"}

RECURSIVE SumLens(_, _)
SumLens(d, S) ==
  IF S = {} THEN 0
  ELSE LET x == CHOOSE y \in S : TRUE IN Len(d[x]) + SumLens(d, S \ {x})
\* records in a dict id -> list
RecordCount(d) == SumLens(d, DOMAIN d)
\* position of x in a sequence without repetition
PosIn(s, x) == CHOOSE i \in 1..Len(s) : s[i] = x

\* ------------------------------------------------------------------ C1
\* fact as the claim states it, read off the raw fields of the record
ExpectedFact(rec) ==
  IF /\ rec.answer.t = "str"
     /\ rec.choices.t = "obj"
     /\ rec.answer.v \in DOMAIN rec.choices.m
  THEN rec.choices.m[rec.answer.v]
  ELSE JNull
OrNull(field) == IF field = Absent THEN JNull ELSE field

\* C1: convert_record of a record object has exactly the fields question, fact
\* and name; fact is choices[answer] when answer is a string key of the choices
\* object and null otherwise; question and name are the input's, null if absent.
C1_ConvertRecord ==
  (tool = "functions" /\ pc # "start") =>
    \A i \in 1..Len(rec_items) :
      rec_items[i].t = "obj" =>
        /\ DOMAIN conv_res[i] = {"question", "fact", "name"}
        /\ conv_res[i].fact = ExpectedFact(rec_items[i])
        /\ conv_res[i].question = OrNull(rec_items[i].question)
        /\ conv_res[i].name = OrNull(rec_items[i].name)

\* a record with answer "A" resolved to "fact1", its question and name absent
C1_Witness ==
  /\ tool = "functions" /\ pc = "converted"
  /\ rec_items[1].t = "obj"
  /\ rec_items[1].answer = JStr("A")
  /\ rec_items[1].question = Absent
  /\ conv_res[1] = [question |-> JNull, fact |-> JStr("fact1"), name |-> JNull]

\* ------------------------------------------------------------------ C2
\* input records under identifiers whose value is a list
RECURSIVE InputListRecords(_)
InputListRecords(d) ==
  IF d = <<>> THEN 0
  ELSE (IF Head(d).val.t = "list" THEN Len(Head(d).val.items) ELSE 0)
       + InputListRecords(Tail(d))
ListIds == {data[i].id : i \in {j \in 1..Len(data) : data[j].val.t = "list"}}
WrittenIds == UNION {DOMAIN conv_files[f] : f \in DOMAIN conv_files}
RECURSIVE WrittenRecords(_)
WrittenRecords(F) ==
  IF F = {} THEN 0
  ELSE LET f == CHOOSE g \in F : TRUE
       IN RecordCount(conv_files[f]) + WrittenRecords(F \ {f})

\* C2: when a run of the converter on a JSON object has ended, the records
\* written across 'selected' and 'others' number the input records under
\* list-valued identifiers, each list-valued identifier is written with as many
\* records as it had, and no other identifier is written.
C2_RecordCount ==
  (IsConvRun /\ Finished) =>
    /\ WrittenRecords(DOMAIN conv_files) = InputListRecords(data)
    /\ WrittenIds = ListIds
    /\ \A f \in DOMAIN conv_files : \A id \in DOMAIN conv_files[f] :
         Len(conv_files[f][id]) = Len(ValueOf(data, id).items)

\* ------------------------------------------------------------------ C3
\* the identifiers of IdSet that are one of "10000" .. "10009"
RangeIds == {"10000", "10009"}

\* C3: after every step of the converter's loop the key sets of selected and
\* others are disjoint, no identifier of "10000".."10009" is a key of others,
\* every list-valued identifier the loop has passed is a key of exactly one of
\* them (selected iff it is in "10000".."10009"), and the files written hold
\* these two dicts.
C3_Routing ==
  tool = "converter" =>
    /\ DOMAIN selected \cap DOMAIN others = {}
    /\ DOMAIN others \cap RangeIds = {}
    /\ \A i \in 1..Len(data) :
         (i < pos /\ data[i].val.t = "list") =>
           IF data[i].id \in RangeIds
             THEN data[i].id \in DOMAIN selected /\ data[i].id \notin DOMAIN others
             ELSE data[i].id \in DOMAIN others /\ data[i].id \notin DOMAIN selected
    /\ "selected" \in DOMAIN conv_files => conv_files["selected"] = selected
    /\ "others" \in DOMAIN conv_files => conv_files["others"] = others

\* both files written, "10009" in selected and "10010" in others
C3_Witness ==
  /\ tool = "converter" /\ pc = "done"
  /\ "10009" \in DOMAIN conv_files["selected"]
  /\ "10010" \in DOMAIN conv_files["others"]

\* ------------------------------------------------------------------ C4
\* identifiers with a record that transform_items emits
Survives(val) ==
  \/ val.t = "list" /\ \E i \in 1..Len(val.items) : ItemOutcome(val.items[i]) = "emit"
  \/ val.t = "obj" /\ ItemOutcome(val) = "emit"
SurvivorIds == {data[i].id : i \in {j \in 1..Len(data) : Survives(data[j].val)}}
ShardKeys(sh) == {shard_files[sh][j].id : j \in 1..Len(shard_files[sh])}

\* C4: when a run of the splitter on a JSON object has ended, the identifiers
\* across the shard files are exactly the input identifiers with a surviving
\* record, none is in two shards and none maps to an empty list.
C4_ShardUnion ==
  (IsSplRun /\ Finished) =>
    /\ UNION {ShardKeys(sh) : sh \in DOMAIN shard_files} = SurvivorIds
    /\ \A a, b \in DOMAIN shard_files : a # b => ShardKeys(a) \cap ShardKeys(b) = {}
    /\ \A sh \in DOMAIN shard_files : \A j \in 1..Len(shard_files[sh]) :
         shard_files[sh][j].val # <<>>

\* ------------------------------------------------------------------ C5
\* x is processed before y: file order, or str order under --sort_ids
Before(x, y) ==
  IF sort_ids THEN LexRank[x] < LexRank[y] ELSE Lookup(data, x) < Lookup(data, y)

\* C5: once the splitter has bucketed, filtered_ids lists the surviving
\* identifiers in processing order; a shard file holds the identifier at
\* position idx iff it is shard (idx mod N) + 1; identifiers keep their
\* processing order inside a shard; at the end all N shards are written.
C5_RoundRobin ==
  (tool = "splitter" /\ pc \in {"write", "done"}) =>
    /\ Range(filtered_ids) = SurvivorIds
    /\ \A a, b \in 1..Len(filtered_ids) :
         a < b => Before(filtered_ids[a], filtered_ids[b])
    /\ \A sh \in DOMAIN shard_files : \A idx \in 0..(Len(filtered_ids) - 1) :
         filtered_ids[idx + 1] \in ShardKeys(sh) <=> sh = (idx % num_shards) + 1
    /\ \A sh \in DOMAIN shard_files : \A a, b \in 1..Len(shard_files[sh]) :
         a < b => PosIn(filtered_ids, shard_files[sh][a].id)
                    < PosIn(filtered_ids, shard_files[sh][b].id)
    /\ pc = "done" => DOMAIN shard_files = 1..num_shards

\* three survivors over two shards, sorted from a file in another order:
\* positions 0 and 2 are in shard 1, position 1 in shard 2
C5_Witness ==
  /\ tool = "splitter" /\ pc = "done" /\ num_shards = 2 /\ sort_ids
  /\ Len(filtered_ids) = 3
  /\ data[1].id # filtered_ids[1]
  /\ Len(shard_files[1]) = 2 /\ Len(shard_files[2]) = 1
  /\ shard_files[1][2].id = filtered_ids[3]

\* ------------------------------------------------------------------ C6
\* C6: when a run of the splitter on a JSON object has ended, exactly the N
\* shard files 1..N are written, and a shard with no identifier is the empty
\* object.
C6_AllShardsWritten ==
  (IsSplRun /\ Finished) =>
    /\ DOMAIN shard_files = 1..num_shards
    /\ \A sh \in DOMAIN shard_files :
         (\A idx \in 0..(Len(filtered_ids) - 1) : sh # (idx % num_shards) + 1)
           => shard_files[sh] = <<>>

\* ------------------------------------------------------------------ C7
\* C7: when the top-level JSON is not an object the run only ever aborts with
\* the validation error, and nothing is written: no converter output file, no
\* output directory, no shard file.
C7_StructuralError ==
  (tool \in {"converter", "splitter"} /\ ~top_is_dict) =>
    /\ pc \in {"start", "failed"}
    /\ pc = "failed" => exc = "ValueError"
    /\ DOMAIN conv_files = {}
    /\ ~outdir_made
    /\ DOMAIN shard_files = {}

\* the splitter has aborted on a top-level value that is no object
C7_Witness ==
  /\ tool = "splitter" /\ ~top_is_dict /\ pc = "failed" /\ exc = "ValueError"

\* ------------------------------------------------------------------ C8
\* C8: a run of the splitter on a JSON object never fails, whatever the shape
\* of the per-record data.
C8_SplitterNeverFails == IsSplRun => pc # "failed"

\* ------------------------------------------------------------------ C9
\* C9: a run of the converter on a JSON object never fails, whatever the JSON
\* type of the elements of its lists: every element converts to a record.
C9_ConverterNeverFails ==
  IsConvRun => (pc # "failed" /\ exc = "none")

\* ------------------------------------------------------------------ C10
\* C10: for every list of record objects, transform_items returns the
\* convert_record outputs whose fact is not null, in the same order.
C10_SameRule ==
  (tool = "functions" /\ pc = "done"
     /\ \A i \in 1..Len(rec_items) : rec_items[i].t = "obj") =>
    /\ tr_res.exc = "none"
    /\ tr_res.out = SelectSeq(conv_res, LAMBDA r : r.fact # JNull)

=============================================================================
